---- MODULE Spec2Model ----
(***************************************************************************)
(* PCM audio streaming playback pipeline of RealtimeVoiceChatMP3.tsx:      *)
(* the "audioChunk" socket handler (decode, enqueue, wake) and the async   *)
(* drain loop playNextChunk, under the browser's single-threaded           *)
(* cooperative scheduling.  Each action is one run-to-completion task of   *)
(* the event loop: a socket event handler, or the resumption of the drain  *)
(* loop after its setTimeout.                                              *)
(*                                                                         *)
(* Time is counted in sample periods (1 / SAMPLE_RATE seconds), so that a  *)
(* fragment of n samples has a nominal duration of n time units.           *)
(***************************************************************************)
EXTENDS Integers, Sequences, FiniteSets, TLC

\* ------------------------------------------------------------------------
\* Bounds of the model
\* ------------------------------------------------------------------------
MaxChunks == 3      \* audioChunk events delivered in one run
MaxTime == 2        \* the clock stops advancing here
MaxEffects == 1     \* runs of the socket effect (mount, re-mount)
MaxMessages == 3    \* messages of the transcript, queued updaters included
MaxBuffer == 2      \* characters accumulated in botTextBuffer by textChunk

\* ------------------------------------------------------------------------
\* Program constants
\* ------------------------------------------------------------------------
SAMPLE_RATE == 24000

\* Sample periods per millisecond: the unit of setTimeout's delay.
TicksPerMs == SAMPLE_RATE \div 1000

\* ------------------------------------------------------------------------
\* atob: forgiving-base64 decode of a string, given as a sequence of
\* one-character strings.
\* ------------------------------------------------------------------------
B64Chars ==
  << "A","B","C","D","E","F","G","H","I","J","K","L","M","N","O","P",
     "Q","R","S","T","U","V","W","X","Y","Z","a","b","c","d","e","f",
     "g","h","i","j","k","l","m","n","o","p","q","r","s","t","u","v",
     "w","x","y","z","0","1","2","3","4","5","6","7","8","9","+","/" >>

B64Index(c) == (CHOOSE i \in 1..64 : B64Chars[i] = c) - 1

IsB64Char(c) == \E i \in 1..64 : B64Chars[i] = c

IsWhitespace(c) == c \in {" ", "\t", "\n", "\f", "\r"}

StripPadding(s) ==
  IF Len(s) > 0 /\ Len(s) % 4 = 0
  THEN IF s[Len(s)] = "=" /\ s[Len(s) - 1] = "="
       THEN SubSeq(s, 1, Len(s) - 2)
       ELSE IF s[Len(s)] = "="
            THEN SubSeq(s, 1, Len(s) - 1)
            ELSE s
  ELSE s

RECURSIVE SextetsToBytes(_)
SextetsToBytes(s) ==
  IF Len(s) >= 4
  THEN LET v == s[1] * 262144 + s[2] * 4096 + s[3] * 64 + s[4]
       IN  << v \div 65536, (v \div 256) % 256, v % 256 >>
             \o SextetsToBytes(SubSeq(s, 5, Len(s)))
  ELSE IF Len(s) = 3
       THEN LET v == (s[1] * 4096 + s[2] * 64 + s[3]) \div 4
            IN  << v \div 256, v % 256 >>
       ELSE IF Len(s) = 2
            THEN << (s[1] * 64 + s[2]) \div 16 >>
            ELSE << >>

\* atob(audio): the decoded bytes, or an InvalidCharacterError.
Atob(audio) ==
  LET stripped == StripPadding(SelectSeq(audio, LAMBDA c : ~IsWhitespace(c)))
  IN  IF Len(stripped) % 4 = 1 \/ \E i \in 1..Len(stripped) : ~IsB64Char(stripped[i])
      THEN [ok |-> FALSE, error |-> "InvalidCharacterError", bytes |-> << >>]
      ELSE [ok |-> TRUE, error |-> "",
            bytes |-> SextetsToBytes([i \in 1..Len(stripped) |-> B64Index(stripped[i])])]

\* NewInt16Array, were a trailing odd byte ignored instead of rejected.
NewInt16ArrayLenient(bytes) ==
  [ok |-> TRUE, error |-> "",
   pcm |-> [i \in 1..(Len(bytes) \div 2) |->
              LET u == bytes[2 * i - 1] + 256 * bytes[2 * i]
              IN  IF u >= 32768 THEN u - 65536 ELSE u]]

\* Int16At, were the bytes read big-endian.
Int16AtBigEndian(bytes, i) ==
  LET u == 256 * bytes[2 * i - 1] + bytes[2 * i]
  IN  IF u >= 32768 THEN u - 65536 ELSE u

\* new Int16Array(buffer): little-endian signed 16-bit view of the bytes;
\* a byte length that is not a multiple of 2 is a RangeError.
Int16At(bytes, i) ==
  LET u == bytes[2 * i - 1] + 256 * bytes[2 * i]
  IN  IF u >= 32768 THEN u - 65536 ELSE u

NewInt16Array(bytes) ==
  IF Len(bytes) % 2 # 0
  THEN [ok |-> FALSE, error |-> "RangeError", pcm |-> << >>]
  ELSE [ok |-> TRUE, error |-> "",
        pcm |-> [i \in 1..(Len(bytes) \div 2) |-> Int16At(bytes, i)]]

\* pcm[i] / 32768 as a binary floating-point number m * 2^e, with m odd
\* (or m = 0, e = 0).  Every int16 / 32768 is exact in a Float32.
RECURSIVE Normalize(_, _)
Normalize(m, e) ==
  IF m = 0 THEN [m |-> 0, e |-> 0]
  ELSE IF m % 2 = 0 THEN Normalize(m \div 2, e + 1)
       ELSE [m |-> m, e |-> e]

ToFloat32(pcm) == Normalize(pcm, -15)

\* Lines 322-331: the decoded Float32Array, or the error thrown on the way.
Decode(audio) ==
  LET binary == Atob(audio)
  IN  IF ~binary.ok
      THEN [ok |-> FALSE, error |-> binary.error, samples |-> << >>]
      ELSE LET pcm == NewInt16Array(binary.bytes)
           IN  IF ~pcm.ok
               THEN [ok |-> FALSE, error |-> pcm.error, samples |-> << >>]
               ELSE [ok |-> TRUE, error |-> "",
                     samples |-> [i \in 1..Len(pcm.pcm) |-> ToFloat32(pcm.pcm[i])]]

\* ------------------------------------------------------------------------
\* Inputs: the audioChunk events the server may send
\* ------------------------------------------------------------------------
AudioEmpty == << >>                                  \* "": zero samples
AudioOne == << "A", "Q", "A", "=" >>                 \* bytes 01 00: one sample
AudioZero == << "A", "A", "A", "=" >>                \* bytes 00 00: one sample
AudioTwo == << "A", "I", "D", "/", "f", "w", "=", "=" >>  \* bytes 00 80 ff 7f
AudioOdd == << "A", "Q", "=", "=" >>                 \* bytes 01: odd length
AudioBad == << "A", "!", "A", "=" >>                 \* not base64

\* The events whose payload decodes.
DecodableEvents ==
  { [audio |-> a, format |-> "pcm16"] : a \in {AudioEmpty, AudioZero, AudioTwo} }

Events ==
  DecodableEvents
  \cup { [audio |-> a, format |-> "pcm16"] : a \in {AudioOdd, AudioBad} }
  \cup { [audio |-> AudioOne, format |-> "mp3"] }

\* ------------------------------------------------------------------------
\* State
\* ------------------------------------------------------------------------
VARIABLES
  queue,        \* queueRef.current: the Float32Array objects awaiting playback
  isPlaying,    \* isPlayingRef.current
  audioCtxRef,  \* audioCtxRef.current: 0 is null, else the AudioContext's number
  socketOpen,   \* the effect's socket exists and has not been disconnected
  effects,      \* number of runs of the socket effect so far
  openCtxs,     \* AudioContexts created and not closed
  loops,        \* invocations of playNextChunk suspended in the await of line 266
  invocations,  \* number of invocations of playNextChunk that entered the loop
  now,          \* the clock, in sample periods
  received,     \* history: the audioChunk events delivered, in order
  accepted,     \* history: numbers of the events whose fragment was pushed
  submitted,    \* history: the source.start() calls, in order
  escaped,      \* history: exceptions and promise rejections nobody caught
  woken,        \* history: playNextChunk was called on its own during a drain
  messages,     \* the messages state: the transcript
  updates,      \* setMessages updaters queued for the next render
  botTextBuffer,  \* botTextBuffer of the effect's closure
  input,        \* the input state
  conversationId  \* the conversationId state

\* The state of the audio pipeline, and the state of the chat transcript.
audioVars == << queue, isPlaying, audioCtxRef, socketOpen, effects, openCtxs, loops,
                invocations, now, received, accepted, submitted, escaped >>

chatVars == << messages, updates, botTextBuffer, input, conversationId >>

vars == << audioVars, woken, chatVars >>

Init ==
  /\ queue = << >>
  /\ isPlaying = FALSE
  /\ audioCtxRef = 0
  /\ socketOpen = FALSE
  /\ effects = 0
  /\ openCtxs = {}
  /\ loops = {}
  /\ invocations = 0
  /\ now = 0
  /\ received = << >>
  /\ accepted = << >>
  /\ submitted = << >>
  /\ escaped = {}
  /\ woken = FALSE
  /\ messages = << >>
  /\ updates = << >>
  /\ botTextBuffer = << >>
  /\ input = << >>
  /\ conversationId = "null"

\* ------------------------------------------------------------------------
\* playNextChunk (lines 243-270)
\* ------------------------------------------------------------------------

\* EntersLoop without the isPlaying check of line 244.
EntersLoopUnguarded(playing, ctx, q) == ctx # 0 /\ Len(q) # 0

\* EntersLoop without the empty-queue check of line 245.
EntersLoopOnEmpty(playing, ctx, q) == ~playing /\ ctx # 0

\* Lines 244-245: the invocation gets past both early returns.
EntersLoop(playing, ctx, q) == ~playing /\ ctx # 0 /\ Len(q) # 0

\* Shift, were it pop(): the last element instead of the first.
ShiftFromEnd(q) == [chunk |-> q[Len(q)], rest |-> SubSeq(q, 1, Len(q) - 1)]

\* Shift, were the first element read and left in the queue.
ShiftKeepsHead(q) == [chunk |-> Head(q), rest |-> q]

\* Line 251: queueRef.current.shift().
Shift(q) == [chunk |-> Head(q), rest |-> Tail(q)]

\* Line 254: createBuffer(1, length, SAMPLE_RATE) throws a NotSupportedError
\* for a length of zero frames.
CreateBufferThrows(length) == length = 0

\* Lines 263, 266: buffer.duration * 1000 milliseconds, which setTimeout
\* truncates to whole milliseconds.
TimerDelayMs(length) == (length * 1000) \div SAMPLE_RATE

\* Line 265: source.start() with no argument starts the source at once.
StartTime(t) == t

\* WhileLoop without the assignment of line 269.
WhileLoopFlagNotCleared(id, ctx, q, rest, playing) ==
  IF Len(q) > 0
  THEN LET chunk == Head(q)
           length == Len(chunk.samples)
       IN  /\ queue' = Tail(q)
           /\ isPlaying' = playing
           /\ IF length = 0
              THEN /\ loops' = rest
                   /\ escaped' = escaped \cup
                        {[kind |-> "rejection", error |-> "NotSupportedError"]}
                   /\ UNCHANGED submitted
              ELSE /\ submitted' = Append(submitted,
                        [id |-> chunk.id, samples |-> chunk.samples,
                         ctx |-> ctx, by |-> id, at |-> now])
                   /\ loops' = rest \cup
                        {[id |-> id, ctx |-> ctx,
                          due |-> now + ((length * 1000) \div SAMPLE_RATE) * TicksPerMs]}
                   /\ UNCHANGED escaped
  ELSE /\ queue' = q
       /\ isPlaying' = playing
       /\ loops' = rest
       /\ UNCHANGED << submitted, escaped >>

\* Lines 250-269, from the loop condition to the next suspension, exit or
\* throw, for invocation id that captured AudioContext ctx; q is the queue
\* at that point, rest the other suspended invocations, playing the flag.
WhileLoop(id, ctx, q, rest, playing) ==
  IF Len(q) > 0
  THEN LET s == Shift(q)
           length == Len(s.chunk.samples)
       IN  /\ queue' = s.rest
           /\ isPlaying' = playing
           /\ IF CreateBufferThrows(length)
              THEN /\ loops' = rest
                   /\ escaped' = escaped \cup
                        {[kind |-> "rejection", error |-> "NotSupportedError"]}
                   /\ UNCHANGED submitted
              ELSE /\ submitted' = Append(submitted,
                        [id |-> s.chunk.id, samples |-> s.chunk.samples,
                         ctx |-> ctx, by |-> id, at |-> StartTime(now)])
                   /\ loops' = rest \cup
                        {[id |-> id, ctx |-> ctx,
                          due |-> now + TimerDelayMs(length) * TicksPerMs]}
                   /\ UNCHANGED escaped
  ELSE /\ queue' = q
       /\ isPlaying' = FALSE
       /\ loops' = rest
       /\ UNCHANGED << submitted, escaped >>

\* PlayNextChunk without the assignment of line 248.
PlayNextChunkFlagNotSet(q) ==
  IF EntersLoop(isPlaying, audioCtxRef, q)
  THEN /\ invocations' = invocations + 1
       /\ WhileLoop(invocations + 1, audioCtxRef, q, loops, isPlaying)
  ELSE /\ queue' = q
       /\ UNCHANGED << isPlaying, loops, invocations, submitted, escaped >>

\* A call of playNextChunk with the queue being q, up to its first await.
PlayNextChunk(q) ==
  IF EntersLoop(isPlaying, audioCtxRef, q)
  THEN /\ invocations' = invocations + 1
       /\ WhileLoop(invocations + 1, audioCtxRef, q, loops, TRUE)
  ELSE /\ queue' = q
       /\ UNCHANGED << isPlaying, loops, invocations, submitted, escaped >>

\* The timer of line 266 fires and the suspended invocation l goes on.
TimerFire ==
  \E l \in loops :
    /\ now >= l.due
    /\ WhileLoop(l.id, l.ctx, queue, loops \ {l}, isPlaying)
    /\ UNCHANGED << audioCtxRef, socketOpen, effects, openCtxs, invocations,
                    now, received, accepted >>
    /\ UNCHANGED << woken, chatVars >>

\* ------------------------------------------------------------------------
\* The socket effect (lines 273-346)
\* ------------------------------------------------------------------------

\* Lines 274-294: the effect runs, in the commit that follows a render (no
\* updater is queued then); a socket and an AudioContext are created and the
\* closure's botTextBuffer starts empty.
EffectRun ==
  /\ ~socketOpen
  /\ updates = << >>
  /\ effects < MaxEffects
  /\ effects' = effects + 1
  /\ socketOpen' = TRUE
  /\ audioCtxRef' = effects + 1
  /\ openCtxs' = openCtxs \cup {effects + 1}
  /\ botTextBuffer' = << >>
  /\ UNCHANGED << queue, isPlaying, loops, invocations, now, received,
                  accepted, submitted, escaped >>
  /\ UNCHANGED << woken, messages, updates, input, conversationId >>

\* Lines 342-345: the effect's cleanup disconnects the socket.
Cleanup ==
  /\ socketOpen
  /\ socketOpen' = FALSE
  /\ UNCHANGED << queue, isPlaying, audioCtxRef, effects, openCtxs, loops,
                  invocations, now, received, accepted, submitted, escaped >>
  /\ UNCHANGED << woken, chatVars >>

\* FormatAccepted without the check of line 320.
FormatAcceptedAny(format) == TRUE

\* Line 320: the format filter.
FormatAccepted(format) == format = "pcm16"

\* Lines 319-337: the handler of "audioChunk", called with the event ev.
OnAudioChunk(ev) ==
  /\ socketOpen
  /\ Len(received) < MaxChunks
  /\ received' = Append(received, ev)
  /\ UNCHANGED << audioCtxRef, socketOpen, effects, openCtxs, now >>
  /\ UNCHANGED << woken, chatVars >>
  /\ IF ~FormatAccepted(ev.format)
     THEN UNCHANGED << queue, isPlaying, loops, invocations, accepted,
                       submitted, escaped >>
     ELSE LET d == Decode(ev.audio)
          IN  IF ~d.ok
              THEN /\ escaped' = escaped \cup
                        {[kind |-> "exception", error |-> d.error]}
                   /\ UNCHANGED << queue, isPlaying, loops, invocations,
                                   accepted, submitted >>
              ELSE /\ accepted' = Append(accepted, Len(received) + 1)
                   /\ PlayNextChunk(Append(queue,
                        [id |-> Len(received) + 1, samples |-> d.samples]))

\* The server sends an audioChunk event.
AudioChunk == \E ev \in Events : OnAudioChunk(ev)

\* The server sends an audioChunk event that decodes.
AudioChunkDecodable == \E ev \in DecodableEvents : OnAudioChunk(ev)

\* Time passes.
Tick ==
  /\ now < MaxTime
  /\ now' = now + 1
  /\ UNCHANGED << queue, isPlaying, audioCtxRef, socketOpen, effects, openCtxs,
                  loops, invocations, received, accepted, submitted, escaped >>
  /\ UNCHANGED << woken, chatVars >>

Next == EffectRun \/ Cleanup \/ AudioChunk \/ TimerFire \/ Tick

Spec == Init /\ [][Next]_vars

\* The pipeline fed with decodable fragments only (the events that the
\* handler rejects leave the scheduler as it is), where a timer that is due
\* fires eventually.
FairNext == EffectRun \/ Cleanup \/ AudioChunkDecodable \/ TimerFire \/ Tick

FairSpec == Init /\ [][FairNext]_vars /\ WF_vars(TimerFire)

\* A call of playNextChunk on its own, with nothing pushed: a wake.
Wake ==
  /\ PlayNextChunk(queue)
  /\ woken' = (woken \/ (isPlaying /\ queue # << >>))
  /\ UNCHANGED << audioCtxRef, socketOpen, effects, openCtxs, now, received,
                  accepted >>
  /\ UNCHANGED chatVars

\* The pipeline with wakes at any moment.
WakeNext == Next \/ Wake

WakeSpec == Init /\ [][WakeNext]_vars

\* ------------------------------------------------------------------------
\* The chat transcript (lines 289-316, 378-389)
\* ------------------------------------------------------------------------

\* Texts, as sequences of characters, that the server and the user may send.
ChunkTexts == { << "a" >> }
Transcripts == { << "t" >> }
InputTexts == { << >>, << " " >>, << "u" >> }
DoneEvents ==
  { [textBuffer |-> b, conversationId |-> "c1"] : b \in { << >>, << "a" >> } }

\* input.trim().
RECURSIVE TrimStart(_)
TrimStart(t) ==
  IF Len(t) > 0 /\ IsWhitespace(t[1]) THEN TrimStart(Tail(t)) ELSE t

RECURSIVE TrimEnd(_)
TrimEnd(t) ==
  IF Len(t) > 0 /\ IsWhitespace(t[Len(t)])
  THEN TrimEnd(SubSeq(t, 1, Len(t) - 1))
  ELSE t

Trim(t) == TrimEnd(TrimStart(t))

\* ApplyUpdate, were the bot's text always pushed as a new message.
ApplyUpdateAlwaysPush(u, msgs, buffer) ==
  IF u.kind = "append"
  THEN Append(msgs, u.msg)
  ELSE Append(msgs, [from |-> "bot", text |-> buffer])

\* One setMessages updater applied to the messages msgs: the append of lines
\* 290 and 387, or the updater of lines 299-310, which reads botTextBuffer
\* when it runs.
ApplyUpdate(u, msgs, buffer) ==
  IF u.kind = "append"
  THEN Append(msgs, u.msg)
  ELSE IF Len(msgs) > 0 /\ msgs[Len(msgs)].from = "bot"
       THEN [msgs EXCEPT ![Len(msgs)].text = buffer]
       ELSE Append(msgs, [from |-> "bot", text |-> buffer])

RECURSIVE ApplyUpdates(_, _, _)
ApplyUpdates(us, msgs, buffer) ==
  IF us = << >>
  THEN msgs
  ELSE ApplyUpdates(Tail(us), ApplyUpdate(Head(us), msgs, buffer), buffer)

RoomForUpdate == Len(messages) + Len(updates) < MaxMessages

\* React renders: the queued updaters run, in order.
Render ==
  /\ updates # << >>
  /\ messages' = ApplyUpdates(updates, messages, botTextBuffer)
  /\ updates' = << >>
  /\ UNCHANGED << botTextBuffer, input, conversationId, woken, audioVars >>

\* Lines 289-291: the handler of "userTranscript".
UserTranscript ==
  \E t \in Transcripts :
    /\ socketOpen
    /\ RoomForUpdate
    /\ updates' = Append(updates,
         [kind |-> "append", msg |-> [from |-> "user", text |-> t]])
    /\ UNCHANGED << messages, botTextBuffer, input, conversationId, woken,
                    audioVars >>

\* Lines 296-311: the handler of "textChunk".
TextChunk ==
  \E t \in ChunkTexts :
    /\ socketOpen
    /\ RoomForUpdate
    /\ Len(botTextBuffer) < MaxBuffer
    /\ botTextBuffer' = botTextBuffer \o t
    /\ updates' = Append(updates, [kind |-> "bot"])
    /\ UNCHANGED << messages, input, conversationId, woken, audioVars >>

\* Lines 313-316: the handler of "responseDone".
ResponseDone ==
  \E data \in DoneEvents :
    /\ socketOpen
    /\ botTextBuffer' = data.textBuffer
    /\ conversationId' = data.conversationId
    /\ UNCHANGED << messages, updates, input, woken, audioVars >>

\* Line 437: the user edits the input field.
SetInput ==
  \E t \in InputTexts :
    /\ socketOpen
    /\ input' = t
    /\ UNCHANGED << messages, updates, botTextBuffer, conversationId, woken,
                    audioVars >>

\* Lines 378-389: sendMessage.
SendMessage ==
  /\ socketOpen
  /\ RoomForUpdate
  /\ IF Trim(input) = << >>
     THEN UNCHANGED << updates, input >>
     ELSE /\ updates' = Append(updates,
               [kind |-> "append", msg |-> [from |-> "user", text |-> input]])
          /\ input' = << >>
  /\ UNCHANGED << messages, botTextBuffer, conversationId, woken, audioVars >>

\* The component with the events of the chat only.
ChatNext ==
  \/ EffectRun
  \/ Cleanup
  \/ Render
  \/ UserTranscript
  \/ TextChunk
  \/ ResponseDone
  \/ SetInput
  \/ SendMessage

ChatSpec == Init /\ [][ChatNext]_vars

\* ------------------------------------------------------------------------
\* Properties
\* ------------------------------------------------------------------------
IsPrefix(s, t) == Len(s) <= Len(t) /\ \A i \in 1..Len(s) : s[i] = t[i]

Ids(s) == [i \in 1..Len(s) |-> s[i].id]

InSeq(x, s) == \E i \in 1..Len(s) : s[i] = x

\* An event has just been delivered to the audioChunk handler.
Delivered == Len(received') = Len(received) + 1

\* A fragment has just been submitted to the audio device.
Submits == Len(submitted') = Len(submitted) + 1

\* C1: FIFO playback order.  In every state the fragments submitted to the
\* audio device so far are, in order, a prefix of the fragments enqueued so
\* far: none is reordered, none is skipped.
C1_FifoOrder == IsPrefix(Ids(submitted), accepted)

\* Three fragments were submitted, the later ones having arrived at different
\* points of the drain loop's progress.
C1_Witness ==
  /\ Len(submitted) = 3
  /\ Ids(submitted) = accepted
  /\ submitted[3].at > submitted[1].at

\* C2: single-flight.  At most one invocation of playNextChunk is inside the
\* while loop at any time, and no invocation enters the loop while another
\* one is suspended in its await.
C2_SingleFlight ==
  /\ [](Cardinality(loops) <= 1)
  /\ [][loops # {} => invocations' = invocations]_vars

\* Two fragments arrived, each calling playNextChunk, while the loop started
\* for an earlier one was suspended.
C2_Witness ==
  /\ Cardinality(loops) = 1
  /\ invocations = 1
  /\ Len(queue) = 2

\* C3: a failed submission does not wedge the scheduler.  Stated for the
\* moments between two tasks: isPlaying is true only while a drain loop is
\* suspended, waiting to go on, so the flag is cleared once the loop is gone.
C3_NotWedged == isPlaying => loops # {}

\* C4: Idle/Draining transitions.  A fragment enqueued while isPlaying is
\* false leaves isPlaying true when its handler returns; isPlaying goes from
\* true to false only in a step that finds the queue empty; hence the queue
\* is empty whenever isPlaying is false.
C4_IdleDraining ==
  /\ [](~isPlaying => queue = << >>)
  /\ [][/\ (~isPlaying /\ accepted' # accepted) => isPlaying'
        /\ (isPlaying /\ ~isPlaying') => (queue = << >> /\ queue' = << >>)]_vars

\* The scheduler went from Idle to Draining and back to Idle, twice.
C4_Witness ==
  /\ ~isPlaying
  /\ invocations = 2
  /\ Len(submitted) = 2

\* C5: a fragment enqueued while a drain loop is suspended is submitted by
\* that loop.  As a property of single steps: while a loop is suspended and
\* fragments are queued (they arrived during its wait), a step either leaves
\* the loop suspended and the queued fragments in place, or is that loop
\* submitting the fragment at the head of the queue and suspending again.
C5_SubmittedBySameLoop ==
  [][(loops # {} /\ queue # << >>) =>
       \A l \in loops :
         \/ l \in loops' /\ IsPrefix(queue, queue')
         \/ /\ Submits
            /\ submitted'[Len(submitted')].id = Head(queue).id
            /\ submitted'[Len(submitted')].by = l.id
            /\ queue' = Tail(queue)
            /\ \E n \in loops' : n.id = l.id]_vars

\* The payloads that are not valid PCM16: an odd number of bytes, and a string
\* that is not base64.
MalformedAudio == {AudioOdd, AudioBad}

Malformed(ev) == ev.format = "pcm16" /\ ev.audio \in MalformedAudio

\* Fragment number k has samples to play.
Playable(k) == received[k].audio \in {AudioZero, AudioTwo}

C7_NothingEscapes == escaped = {}

\* C8: format filter.  The handler of an event whose format is not "pcm16"
\* changes neither the queue nor isPlaying and starts no drain loop, and
\* such a fragment is never enqueued and never submitted.
C8_FormatFilter ==
  /\ [](\A k \in 1..Len(received) :
          received[k].format # "pcm16" =>
            /\ ~InSeq(k, accepted)
            /\ ~InSeq(k, Ids(queue))
            /\ ~InSeq(k, Ids(submitted)))
  /\ [][(Delivered /\ received'[Len(received')].format # "pcm16") =>
          UNCHANGED << queue, isPlaying, loops, invocations, accepted,
                       submitted >>]_vars

\* An event of another format arrived while the scheduler was Draining with
\* a fragment queued.
C8_Witness ==
  /\ Len(received) = 3
  /\ received[3].format # "pcm16"
  /\ isPlaying
  /\ Len(queue) = 1

\* C9: cancellation.  Once the effect's cleanup has run, the drain loop that
\* was started on the AudioContext of that effect submits no further
\* fragment.
C9_Cancellation ==
  [][Submits => (socketOpen /\ submitted'[Len(submitted')].ctx = effects)]_vars

\* C10: gapless scheduling.  Of two fragments submitted one after the other
\* by the same drain loop, the second starts when the first one's nominal
\* playback ends: at the first one's start plus its number of samples.
C10_Gapless ==
  \A i \in 1..(Len(submitted) - 1) :
    submitted[i + 1].by = submitted[i].by =>
      submitted[i + 1].at = submitted[i].at + Len(submitted[i].samples)

\* The bytes that each well-formed payload of the inputs encodes.
PayloadBytes(audio) ==
  CASE audio = AudioEmpty -> << >>
    [] audio = AudioZero -> << 0, 0 >>
    [] audio = AudioTwo -> << 0, 128, 255, 127 >>

WellFormed(ev) ==
  ev.format = "pcm16" /\ ev.audio \in {AudioEmpty, AudioZero, AudioTwo}

\* The float m * 2^e is the 16-bit value of bytes lo, hi (lo first), as a
\* signed integer, divided by 32768.
IsInt16Over32768(f, lo, hi) ==
  /\ f.e >= -15
  /\ f.e <= 0
  /\ f.m * 2 ^ (f.e + 15) =
       (IF lo + 256 * hi >= 32768 THEN lo + 256 * hi - 65536 ELSE lo + 256 * hi)

\* samples is the decoding of the payload of event number k.
DecodesEvent(samples, k) ==
  LET bytes == PayloadBytes(received[k].audio)
  IN  /\ 2 * Len(samples) = Len(bytes)
      /\ \A i \in 1..Len(samples) :
           IsInt16Over32768(samples[i], bytes[2 * i - 1], bytes[2 * i])

Count(x, s) == Cardinality({i \in 1..Len(s) : s[i] = x})

\* C11: decode correctness.  Every event with a payload of 2n bytes is
\* enqueued exactly once, as a fragment of n samples, the i-th being the
\* little-endian signed 16-bit integer of bytes 2i-1 and 2i divided by
\* 32768; the fragment has these contents as long as it is in the queue
\* and when it is handed to the audio device.
C11_DecodeCorrect ==
  /\ \A k \in 1..Len(received) :
       WellFormed(received[k]) => Count(k, accepted) = 1
  /\ \A i \in 1..Len(queue) : DecodesEvent(queue[i].samples, queue[i].id)
  /\ \A i \in 1..Len(submitted) :
       DecodesEvent(submitted[i].samples, submitted[i].id)

\* The fragment of -32768 and 32767, the fragment of 0 and the fragment of
\* no sample were decoded; the first has been played, the others are
\* waiting in the queue.
C11_Witness ==
  /\ Len(submitted) = 1
  /\ received[submitted[1].id].audio = AudioTwo
  /\ submitted[1].samples = << [m |-> -1, e |-> 0], [m |-> 32767, e |-> -15] >>
  /\ Len(queue) = 2
  /\ received[queue[1].id].audio = AudioZero
  /\ queue[1].samples = << [m |-> 0, e |-> 0] >>
  /\ received[queue[2].id].audio = AudioEmpty

\* C12: at most one fragment in flight.  A fragment is started on the audio
\* device no earlier than the nominal end of the fragment started before
\* it: that one's start plus its number of samples.
C12_OneInFlight ==
  \A i \in 1..(Len(submitted) - 1) :
    submitted[i + 1].at >= submitted[i].at + Len(submitted[i].samples)

\* A submission to the audio device has failed.
SubmissionFailed == \E x \in escaped : x.kind = "rejection"

\* C13: drain termination.  With timers firing fairly, a drain that has
\* started ends, unless a submission fails, with the queue empty and
\* isPlaying false; and while isPlaying is false nothing is submitted and
\* isPlaying stays false until a fragment is enqueued.
C13_DrainTerminates ==
  /\ isPlaying ~> (SubmissionFailed \/ (~isPlaying /\ queue = << >> /\ loops = {}))
  /\ [][(~isPlaying /\ accepted' = accepted) =>
          (~isPlaying' /\ submitted' = submitted)]_vars

\* One drain loop has played three fragments and has exited to Idle.
C13_Witness ==
  /\ ~isPlaying
  /\ queue = << >>
  /\ loops = {}
  /\ invocations = 1
  /\ Len(submitted) = 3
  /\ ~SubmissionFailed

\* C14: wake is idempotent.  A call of playNextChunk on its own, while
\* isPlaying is true or while the queue is empty, changes nothing of the
\* pipeline and submits nothing, so a run with such calls is a run without
\* them; and isPlaying is true or the queue empty at every such call.
C14_WakeIdempotent ==
  /\ [](isPlaying \/ queue = << >>)
  /\ [][Wake => UNCHANGED audioVars]_vars

\* A wake came during a drain with fragments queued, and the drain went on
\* to play three fragments with one loop.
C14_Witness ==
  /\ woken
  /\ invocations = 1
  /\ Len(submitted) = 3

\* C15: audio device lifecycle.  At most one AudioContext is open at a
\* time, and once the effect's cleanup has run none is open.
C15_OneDeviceHandle ==
  /\ Cardinality(openCtxs) <= 1
  /\ ~socketOpen => openCtxs = {}

\* C16: conservation of fragments.  As long as no submission has failed,
\* the fragments enqueued so far are, in order, the fragments submitted so
\* far followed by the contents of the queue.
C16_Conservation ==
  ~SubmissionFailed => accepted = Ids(submitted) \o Ids(queue)

\* Two fragments have been submitted and a third is in the queue.
C16_Witness ==
  /\ ~SubmissionFailed
  /\ Len(submitted) = 2
  /\ Len(queue) = 1

\* C17: transcript shape.  No two adjacent messages are from the bot; and
\* the updater of a textChunk, run on its own, appends a bot message with
\* the text of the buffer when the last message is not from the bot, and
\* otherwise only replaces the last message's text by the buffer.
C17_TranscriptShape ==
  /\ [](\A i \in 1..(Len(messages) - 1) :
          ~(messages[i].from = "bot" /\ messages[i + 1].from = "bot"))
  /\ [][(updates = << [kind |-> "bot"] >> /\ updates' = << >>) =>
          IF Len(messages) > 0 /\ messages[Len(messages)].from = "bot"
          THEN /\ Len(messages') = Len(messages)
               /\ messages'[Len(messages)] = [from |-> "bot", text |-> botTextBuffer]
               /\ SubSeq(messages', 1, Len(messages) - 1)
                    = SubSeq(messages, 1, Len(messages) - 1)
          ELSE messages' = Append(messages, [from |-> "bot", text |-> botTextBuffer])]_vars

\* The bot answered, the user spoke, and the bot's second answer came in
\* two chunks that make one message.
C17_Witness ==
  /\ Len(messages) = 3
  /\ messages[1].from = "bot"
  /\ messages[2].from = "user"
  /\ messages[3] = [from |-> "bot", text |-> << "a", "a" >>]
  /\ updates = << >>

====
